---- MODULE Spec2Model ----
(***************************************************************************)
(* Model of score_streets.py (step 4 of the street quality scoring         *)
(* script): count_points_near_line and score_streets.                      *)
(*                                                                         *)
(* Units.  Coordinates are integers on a grid of 1e-4 degrees.  Decibel    *)
(* values are integers in tenths of a dB (725 is 72.5 dB).  Scores held in *)
(* the numpy arrays are exact rationals [n |-> , d |-> ] with d > 0; the   *)
(* scores written to the returned frame are integers in thousandths, the   *)
(* result of np.round(x, 3).                                               *)
(***************************************************************************)
EXTENDS Integers, Sequences, FiniteSets, TLC

VARIABLES
    edges,            \* input: sequence of segment geometries
    noise_gdf,        \* input: sequence of [centroid, noise_db]
    tree_points,      \* input: sequence of points
    cleaning_points,  \* input: sequence of points
    poi_points,       \* input: sequence of points
    pc,               \* position in score_streets
    tree_kdtree, cleaning_kdtree, poi_kdtree, noise_kdtree,
    i,                \* loop counter of the for loop (0-based, as in the code)
    noise_scores, green_scores, clean_scores, cultural_scores,
    tree_counts, cleaning_counts, poi_counts,
    processed,        \* history: <<segment, part>> units of matching work done
    queried,          \* history: segments for which a k-d tree was queried
    scored,           \* the frame returned by score_streets
    err               \* the exception raised, if any

inputs == <<edges, noise_gdf, tree_points, cleaning_points, poi_points>>
indices == <<tree_kdtree, cleaning_kdtree, poi_kdtree, noise_kdtree>>
arrays == <<noise_scores, green_scores, clean_scores, cultural_scores,
            tree_counts, cleaning_counts, poi_counts>>
vars == <<inputs, pc, indices, i, arrays, processed, queried, scored, err>>

----------------------------------------------------------------------------
(* Bounds of the explored inputs *)
MaxEdges == 2
MaxNoise == 2
MaxTrees == 3
MaxCleaning == 4
MaxPois == 1

(* Program constants *)
BUFFER_METERS == 25
DEG_METERS == 111000
NOISE_MATCH_GRID == 10
DB_BEST == 375
DB_SPAN == 400
PERCENTILE == 90
CLEAN_PENALTY == 3
ROUND_SCALE == 1000

----------------------------------------------------------------------------
(* Arithmetic helpers *)
Min(a, b) == IF a <= b THEN a ELSE b
Max(a, b) == IF a >= b THEN a ELSE b

Rat(n, d) == [n |-> n, d |-> d]
RatEq(a, b) == a.n * b.d = b.n * a.d

\* the clamp of line 291 left out
Clamp01_unclamped(x) == x

\* max(0.0, min(1.0, x)) on a rational with positive denominator
Clamp01(x) == Rat(Max(0, Min(x.n, x.d)), x.d)

\* np.round(x, 3) of a non-negative rational, in thousandths (round half to even)
Round3(x) ==
    LET s == ROUND_SCALE * x.n
        q == s \div x.d
        r == s % x.d
    IN  IF 2 * r < x.d THEN q
        ELSE IF 2 * r > x.d THEN q + 1
        ELSE IF q % 2 = 0 THEN q ELSE q + 1

Dist2(p, q) == (p[1] - q[1]) * (p[1] - q[1]) + (p[2] - q[2]) * (p[2] - q[2])

RECURSIVE Flatten(_)
Flatten(ss) == IF ss = <<>> THEN <<>> ELSE Head(ss) \o Flatten(Tail(ss))

----------------------------------------------------------------------------
(* Geometries *)
NoneGeom == [kind |-> "None"]
LineString(coords) == [kind |-> "LineString", parts |-> <<coords>>]
MultiLineString(lines) == [kind |-> "MultiLineString", parts |-> lines]

is_empty(g) == \A k \in 1..Len(g.parts) : g.parts[k] = <<>>

\* geom.centroid, scaled: the point is (num[1]/den, num[2]/den).  Exact for a
\* two-vertex line and for parts of equal length, which is what Geoms holds.
Centroid(g) ==
    LET np == Len(g.parts)
        sx == [k \in 1..np |-> g.parts[k][1][1] + g.parts[k][Len(g.parts[k])][1]]
        sy == [k \in 1..np |-> g.parts[k][1][2] + g.parts[k][Len(g.parts[k])][2]]
        Sum[k \in 0..np, f \in {"x", "y"}] ==
            IF k = 0 THEN 0
            ELSE Sum[k - 1, f] + (IF f = "x" THEN sx[k] ELSE sy[k])
    IN  [num |-> <<Sum[np, "x"], Sum[np, "y"]>>, den |-> 2 * np]

----------------------------------------------------------------------------
(* Spatial indices *)
None == [tag |-> "None"]
NotBuilt == [tag |-> "NotBuilt"]

Identity(n) == [k \in 1..n |-> k]
Perms(n) == {f \in [1..n -> 1..n] : \A a, b \in 1..n : f[a] = f[b] => a = b}

\* cKDTree(data).  order is the traversal order of the built tree: it decides
\* which of several equally near points a nearest-neighbour query reports.
cKDTree(data, order) == [tag |-> "cKDTree", data |-> data, order |-> order]

\* 25 m in degrees is BUFFER_METERS / 111000; on the 1e-4 degree grid a point
\* at squared distance d2 is within it iff d2 * 111^2 <= 250^2.
InBuffer(d2) ==
    d2 * (DEG_METERS \div 1000) * (DEG_METERS \div 1000)
        <= (BUFFER_METERS * 10) * (BUFFER_METERS * 10)

query_ball_point(kdtree, coord) ==
    {k \in 1..Len(kdtree.data) : InBuffer(Dist2(kdtree.data[k], coord))}

\* kdtree.query(c) for the scaled point c: [idx, d2] with d2 scaled by c.den^2
query(kdtree, c) ==
    LET n == Len(kdtree.data)
        D2(k) == Dist2(c.num, <<c.den * kdtree.data[k][1], c.den * kdtree.data[k][2]>>)
        nearest == {k \in 1..n : \A j \in 1..n : D2(k) <= D2(j)}
        pos(k) == CHOOSE a \in 1..n : kdtree.order[a] = k
        idx == CHOOSE k \in nearest : \A j \in nearest : pos(k) <= pos(j)
    IN  [idx |-> idx, d2 |-> D2(idx)]

\* the per-vertex results summed instead of united
count_points_near_line_sum(line_geom, kdtree) ==
    IF is_empty(line_geom) THEN 0
    ELSE LET coords == Flatten(line_geom.parts)
             Sum[k \in 0..Len(coords)] ==
                 IF k = 0 THEN 0
                 ELSE Sum[k - 1] + Cardinality(query_ball_point(kdtree, coords[k]))
         IN  Sum[Len(coords)]

count_points_near_line(line_geom, kdtree) ==
    IF is_empty(line_geom) THEN 0
    ELSE LET coords == IF line_geom.kind = "MultiLineString"
                       THEN Flatten(line_geom.parts)
                       ELSE line_geom.parts[1]
         IN  IF Len(coords) = 0 THEN 0
             ELSE Cardinality(UNION {query_ball_point(kdtree, coords[k]) :
                                         k \in 1..Len(coords)})

----------------------------------------------------------------------------
(* The body of the per-segment loop; k is the 1-based position of the segment *)
n_edges == Len(edges)

Skipped(k) == edges[k] = NoneGeom \/ is_empty(edges[k])

\* the scale not inverted: loud scores high
NoiseFormula_uninverted(db) == Clamp01(Rat(db - DB_BEST, DB_SPAN))

\* 1.0 - (db - 37.5) / 40.0, clamped
NoiseFormula(db) == Clamp01(Rat(DB_SPAN - (db - DB_BEST), DB_SPAN))

MatchNoise(k, scores) ==
    LET centroid == Centroid(edges[k])
        hit == query(noise_kdtree, centroid)
    IN  IF hit.d2 < NOISE_MATCH_GRID * NOISE_MATCH_GRID * centroid.den * centroid.den
        THEN [scores EXCEPT ![k] = NoiseFormula(noise_gdf[hit.idx].noise_db)]
        ELSE scores

\* a running total carried over from the previous segment's slot
MatchCounts_carry(k, counts, kdtree) ==
    IF kdtree # None
    THEN [counts EXCEPT ![k] = count_points_near_line(edges[k], kdtree)
                                  + (IF k > 1 THEN counts[k - 1] ELSE 0)]
    ELSE counts

MatchCounts(k, counts, kdtree) ==
    IF kdtree # None
    THEN [counts EXCEPT ![k] = count_points_near_line(edges[k], kdtree)]
    ELSE counts

----------------------------------------------------------------------------
(* Normalisation *)
RECURSIVE Insert(_, _)
Insert(x, s) ==
    IF s = <<>> THEN <<x>>
    ELSE IF x <= Head(s) THEN <<x>> \o s
    ELSE <<Head(s)>> \o Insert(x, Tail(s))

\* counts[counts > 0] among the first m entries, sorted as np.percentile sorts
RECURSIVE SortedNonzeroUpTo(_, _)
SortedNonzeroUpTo(counts, m) ==
    IF m = 0 THEN <<>>
    ELSE IF counts[m] > 0 THEN Insert(counts[m], SortedNonzeroUpTo(counts, m - 1))
    ELSE SortedNonzeroUpTo(counts, m - 1)

SortedNonzero(counts) == SortedNonzeroUpTo(counts, Len(counts))

ArrayMax(counts) ==
    CHOOSE m \in {counts[k] : k \in 1..Len(counts)} :
        \A k \in 1..Len(counts) : counts[k] <= m

\* np.percentile(v, 90) with linear interpolation, times 100
Percentile100(v) ==
    LET pos == PERCENTILE * (Len(v) - 1)
        lo == pos \div 100
        fr == pos % 100
        hi == Min(lo + 1, Len(v) - 1)
    IN  100 * v[lo + 1] + fr * (v[hi + 1] - v[lo + 1])

\* cap = max(np.percentile(counts[counts > 0], 90), 1), times 100
Cap100(counts) == Max(Percentile100(SortedNonzero(counts)), 100)

\* np.minimum(..., 1.0) left out
CapNormalize_noClamp(counts, scores) ==
    IF ArrayMax(counts) > 0
    THEN [k \in 1..Len(counts) |-> Rat(100 * counts[k], Cap100(counts))]
    ELSE scores

\* lines 309-311 and 319-321: the percentile-cap normalisation
CapNormalize(counts, scores) ==
    IF ArrayMax(counts) > 0
    THEN [k \in 1..Len(counts) |->
            Rat(Min(100 * counts[k], Cap100(counts)), Cap100(counts))]
    ELSE scores

\* lines 315-316
CleanNormalize(counts) ==
    [k \in 1..Len(counts) |->
        IF counts[k] = 0 THEN Rat(1, 1)
        ELSE Rat(Max(0, 10 - CLEAN_PENALTY * counts[k]), 10)]

----------------------------------------------------------------------------
(* Inputs explored *)
SeqsUpTo(S, n) == UNION {[1..m -> S] : m \in 0..n}

PointLe(p, q) == p[1] < q[1] \/ (p[1] = q[1] /\ p[2] <= q[2])

\* point clouds are unordered collections where duplicates count: one
\* representative (the sorted one) per multiset
Clouds(S, n) ==
    {c \in SeqsUpTo(S, n) : \A k \in 1..(Len(c) - 1) : PointLe(c[k], c[k + 1])}

SegA == LineString(<< <<0, 0>>, <<4, 0>> >>)
SegB == MultiLineString(<< << <<40, 0>>, <<42, 1>> >>, << <<42, 1>>, <<44, 0>> >> >>)
Geoms == {NoneGeom, LineString(<<>>), SegA, SegB}

TreePts == {<<2, 1>>, <<42, 1>>}
CleaningPts == {<<2, 1>>}
PoiPts == {<<0, 2>>}
\* readings below, inside and above the 37.5-77.5 dB range, two of them at the
\* same place
NoiseObs ==
    {[centroid |-> <<3, 0>>, noise_db |-> 725], [centroid |-> <<3, 0>>, noise_db |-> 300],
     [centroid |-> <<10, 0>>, noise_db |-> 725], [centroid |-> <<10, 0>>, noise_db |-> 850]}

LoudReading == [centroid |-> <<3, 0>>, noise_db |-> 850]
ThreeTrees == << <<2, 1>>, <<2, 1>>, <<2, 1>> >>

\* every noise survey, with a fixed tree cloud
NoiseInputs ==
    /\ noise_gdf \in SeqsUpTo(NoiseObs, MaxNoise)
    /\ tree_points = ThreeTrees
    /\ cleaning_points = <<>>
    /\ poi_points = <<>>

\* every combination of point clouds, with one noise observation
CloudInputs ==
    /\ noise_gdf = <<LoudReading>>
    /\ tree_points \in Clouds(TreePts, MaxTrees)
    /\ cleaning_points \in Clouds(CleaningPts, MaxCleaning)
    /\ poi_points \in Clouds(PoiPts, MaxPois)

Init ==
    /\ edges \in SeqsUpTo(Geoms, MaxEdges)
    /\ (NoiseInputs \/ CloudInputs)
    /\ pc = "build"
    /\ tree_kdtree = NotBuilt /\ cleaning_kdtree = NotBuilt
    /\ poi_kdtree = NotBuilt /\ noise_kdtree = NotBuilt
    /\ i = 0
    /\ noise_scores = <<>> /\ green_scores = <<>>
    /\ clean_scores = <<>> /\ cultural_scores = <<>>
    /\ tree_counts = <<>> /\ cleaning_counts = <<>> /\ poi_counts = <<>>
    /\ processed = {}
    /\ queried = {}
    /\ scored = <<>>
    /\ err = "None"

----------------------------------------------------------------------------
(* score_streets, step by step *)

\* the emptiness test left out
BuildPointIndex_always(points) == cKDTree(points, Identity(Len(points)))

\* lines 252-254: an index per point cloud, absent for an empty cloud
BuildPointIndex(points) ==
    IF Len(points) > 0 THEN cKDTree(points, Identity(Len(points))) ELSE None

\* lines 250-261.  cKDTree over np.array([]) (no noise observation) raises.
BuildIndices ==
    /\ pc = "build"
    /\ tree_kdtree' = BuildPointIndex(tree_points)
    /\ cleaning_kdtree' = BuildPointIndex(cleaning_points)
    /\ poi_kdtree' = BuildPointIndex(poi_points)
    /\ IF Len(noise_gdf) = 0
       THEN /\ pc' = "error"
            /\ err' = "ValueError: cKDTree data must be of shape (n, m)"
            /\ UNCHANGED noise_kdtree
       ELSE /\ \E order \in Perms(Len(noise_gdf)) :
                  noise_kdtree' = cKDTree([k \in 1..Len(noise_gdf) |-> noise_gdf[k].centroid],
                                          order)
            /\ pc' = "alloc"
            /\ UNCHANGED err
    /\ UNCHANGED <<inputs, i, arrays, processed, queried, scored>>

\* np.zeros in place of np.full(n_edges, 0.5)
NoiseDefault_zero == Rat(0, 1)

\* line 265: medium noise if no data
NoiseDefault == Rat(1, 2)

\* lines 264-273
Alloc ==
    /\ pc = "alloc"
    /\ noise_scores' = [k \in 1..n_edges |-> NoiseDefault]
    /\ green_scores' = [k \in 1..n_edges |-> Rat(0, 1)]
    /\ clean_scores' = [k \in 1..n_edges |-> Rat(1, 1)]
    /\ cultural_scores' = [k \in 1..n_edges |-> Rat(0, 1)]
    /\ tree_counts' = [k \in 1..n_edges |-> 0]
    /\ cleaning_counts' = [k \in 1..n_edges |-> 0]
    /\ poi_counts' = [k \in 1..n_edges |-> 0]
    /\ i' = 0
    /\ pc' = "loop"
    /\ UNCHANGED <<inputs, indices, processed, queried, scored, err>>

Units(k) == {<<k, "noise">>, <<k, "counts">>}
AllUnits == UNION {Units(k) : k \in 1..n_edges}

\* lines 275-303: one iteration of the for loop
LoopIter ==
    /\ pc = "loop"
    /\ i < n_edges
    /\ LET k == i + 1 IN
         IF Skipped(k)
         THEN UNCHANGED <<noise_scores, tree_counts, cleaning_counts, poi_counts, queried>>
         ELSE /\ noise_scores' = MatchNoise(k, noise_scores)
              /\ tree_counts' = MatchCounts(k, tree_counts, tree_kdtree)
              /\ cleaning_counts' = MatchCounts(k, cleaning_counts, cleaning_kdtree)
              /\ poi_counts' = MatchCounts(k, poi_counts, poi_kdtree)
              /\ queried' = queried \cup {k}
    /\ processed' = processed \cup Units(i + 1)
    /\ i' = i + 1
    /\ UNCHANGED <<inputs, pc, indices, green_scores, clean_scores, cultural_scores,
                   scored, err>>

\* the loop left one segment early
LoopFinished_early == i >= n_edges - 1

LoopFinished == i = n_edges

\* line 275: the iterator is exhausted
LoopExit ==
    /\ pc = "loop"
    /\ LoopFinished
    /\ pc' = "normalize"
    /\ UNCHANGED <<inputs, indices, i, arrays, processed, queried, scored, err>>

\* lines 305-321.  tree_counts.max() of a zero-size array raises.
Normalize ==
    /\ pc = "normalize"
    /\ IF Len(tree_counts) = 0
       THEN /\ pc' = "error"
            /\ err' = "ValueError: zero-size array to reduction operation maximum"
            /\ UNCHANGED <<green_scores, clean_scores, cultural_scores>>
       ELSE /\ green_scores' = CapNormalize(tree_counts, green_scores)
            /\ clean_scores' = CleanNormalize(cleaning_counts)
            /\ cultural_scores' = CapNormalize(poi_counts, cultural_scores)
            /\ pc' = "assign"
            /\ UNCHANGED err
    /\ UNCHANGED <<inputs, indices, i, noise_scores, tree_counts, cleaning_counts,
                   poi_counts, processed, queried, scored>>

ScoredRow(k) ==
    [geometry |-> edges[k],
     noise_score |-> Round3(noise_scores[k]),
     green_score |-> Round3(green_scores[k]),
     clean_score |-> Round3(clean_scores[k]),
     cultural_score |-> Round3(cultural_scores[k])]

\* lines 323-336
Assign ==
    /\ pc = "assign"
    /\ scored' = [k \in 1..n_edges |-> ScoredRow(k)]
    /\ pc' = "done"
    /\ UNCHANGED <<inputs, indices, i, arrays, processed, queried, err>>

Next == BuildIndices \/ Alloc \/ LoopIter \/ LoopExit \/ Normalize \/ Assign

Spec == Init /\ [][Next]_vars

----------------------------------------------------------------------------
(* The matching phase run by parallel workers: the units of work of the    *)
(* loop body (the noise match and the three counts of each segment) are    *)
(* taken in any order.                                                     *)

InitPar ==
    /\ Init
    /\ Len(noise_gdf) <= 1
    /\ Len(tree_points) <= 2 \/ tree_points = ThreeTrees
    /\ Len(cleaning_points) <= 1

ParNoise(k) ==
    /\ pc = "loop"
    /\ <<k, "noise">> \notin processed
    /\ IF Skipped(k)
       THEN UNCHANGED <<noise_scores, queried>>
       ELSE /\ noise_scores' = MatchNoise(k, noise_scores)
            /\ queried' = queried \cup {k}
    /\ processed' = processed \cup {<<k, "noise">>}
    /\ UNCHANGED <<inputs, pc, indices, i, green_scores, clean_scores, cultural_scores,
                   tree_counts, cleaning_counts, poi_counts, scored, err>>

ParCounts(k) ==
    /\ pc = "loop"
    /\ <<k, "counts">> \notin processed
    /\ IF Skipped(k)
       THEN UNCHANGED <<tree_counts, cleaning_counts, poi_counts, queried>>
       ELSE /\ tree_counts' = MatchCounts(k, tree_counts, tree_kdtree)
            /\ cleaning_counts' = MatchCounts(k, cleaning_counts, cleaning_kdtree)
            /\ poi_counts' = MatchCounts(k, poi_counts, poi_kdtree)
            /\ queried' = queried \cup {k}
    /\ processed' = processed \cup {<<k, "counts">>}
    /\ UNCHANGED <<inputs, pc, indices, i, noise_scores, green_scores, clean_scores,
                   cultural_scores, scored, err>>

ParJoin ==
    /\ pc = "loop"
    /\ processed = AllUnits
    /\ pc' = "normalize"
    /\ UNCHANGED <<inputs, indices, i, arrays, processed, queried, scored, err>>

ParNoiseStep == \E k \in 1..n_edges : ParNoise(k)
ParCountsStep == \E k \in 1..n_edges : ParCounts(k)

NextPar ==
    BuildIndices \/ Alloc \/ ParNoiseStep \/ ParCountsStep \/ ParJoin \/ Normalize \/ Assign

SpecPar == InitPar /\ [][NextPar]_vars

----------------------------------------------------------------------------
(* Vocabulary of the properties *)

Returned == pc = "done"
Rows == 1..Len(scored)
ScoreFields == {"noise_score", "green_score", "clean_score", "cultural_score"}

VerticesOf(g) ==
    IF g = NoneGeom THEN {}
    ELSE UNION {{g.parts[a][b] : b \in 1..Len(g.parts[a])} : a \in 1..Len(g.parts)}

\* the entries of a cloud lying within the buffer radius of some vertex of g
NearSet(g, points) ==
    {j \in 1..Len(points) : \E v \in VerticesOf(g) : InBuffer(Dist2(points[j], v))}

\* squared distance from g's centroid to a noise observation, and the threshold,
\* both scaled by the centroid's denominator
ObsDist2(g, ob) ==
    Dist2(Centroid(g).num,
          <<Centroid(g).den * ob.centroid[1], Centroid(g).den * ob.centroid[2]>>)
Threshold2(g) == NOISE_MATCH_GRID * NOISE_MATCH_GRID * Centroid(g).den * Centroid(g).den
Observations == {noise_gdf[k] : k \in 1..Len(noise_gdf)}

----------------------------------------------------------------------------
\* C1: after score_streets returns, each of the four scores of every segment
\* lies in [0,1] (0..1000 thousandths), whatever the decibel value and counts.
C1_ScoresInUnitInterval ==
    Returned =>
        \A k \in Rows :
            /\ scored[k].noise_score \in 0..ROUND_SCALE
            /\ scored[k].green_score \in 0..ROUND_SCALE
            /\ scored[k].clean_score \in 0..ROUND_SCALE
            /\ scored[k].cultural_score \in 0..ROUND_SCALE

\* a returned segment matched to an 85 dB reading, with 4 cleaning spots and a
\* tree count above the cap: all three clamps have acted
C1_Witness ==
    /\ Returned
    /\ \E k \in Rows :
          /\ ~Skipped(k)
          /\ \E ob \in Observations : ob.noise_db > DB_BEST + DB_SPAN
                                       /\ ObsDist2(edges[k], ob) < Threshold2(edges[k])
          /\ scored[k].noise_score = 0
          /\ cleaning_counts[k] >= 4 /\ scored[k].clean_score = 0
          /\ tree_counts[k] > 0 /\ 100 * tree_counts[k] > Cap100(tree_counts)
          /\ scored[k].green_score = ROUND_SCALE

----------------------------------------------------------------------------
\* C2: score_streets never raises, given at least one noise observation; in
\* particular not for an empty segment list, empty clouds or empty geometries.
C2_Total == Len(noise_gdf) > 0 => pc # "error"

----------------------------------------------------------------------------
C3_Scenario ==
    /\ n_edges = 2 /\ ~Skipped(1) /\ ~Skipped(2)
    /\ \E ob \in Observations : ob.noise_db = 725
                                 /\ ObsDist2(edges[1], ob) < Threshold2(edges[1])
    /\ \A ob \in Observations : ObsDist2(edges[2], ob) >= Threshold2(edges[2])
    /\ Cardinality(NearSet(edges[1], tree_points)) = 3
    /\ Cardinality(NearSet(edges[2], tree_points)) = 0

\* the observation nearest to A's centroid is a 72.5 dB one
C3_NearestIs725 ==
    \A ob \in Observations :
        (\A other \in Observations : ObsDist2(edges[1], ob) <= ObsDist2(edges[1], other))
            => ob.noise_db = 725

\* C3 as stated: in the two-segment scenario A scores noise 0.625 and green 1.0,
\* B scores noise 0.5 and green 0.0.
C3_Original ==
    (Returned /\ C3_Scenario) =>
        /\ scored[1].noise_score = 625 /\ scored[1].green_score = 1000
        /\ scored[2].noise_score = 500 /\ scored[2].green_score = 0

\* C3 amended: in the two-segment scenario, the reading nearest to A being the
\* 72.5 dB one, A scores noise 0.125 and green 1.0, B scores noise 0.5 and green 0.0.
C3_EndToEnd ==
    (Returned /\ C3_Scenario /\ C3_NearestIs725) =>
        /\ scored[1].noise_score = 125 /\ scored[1].green_score = 1000
        /\ scored[2].noise_score = 500 /\ scored[2].green_score = 0

C3_Witness == Returned /\ C3_Scenario /\ C3_NearestIs725 /\ scored[1].noise_score = 125

----------------------------------------------------------------------------
\* C4: with no noise observation score_streets still completes, and every
\* segment's noise_score is the default 0.5.
C4_EmptyNoiseHandled ==
    Len(noise_gdf) = 0 =>
        /\ pc # "error"
        /\ Returned => \A k \in Rows : scored[k].noise_score = 500

----------------------------------------------------------------------------
CountedSegments == {k \in 1..n_edges : <<k, "counts">> \in processed}

----------------------------------------------------------------------------
Normalized == pc \in {"assign", "done"}

\* C6: percentile-cap normalisation of the tree counts.  With no nonzero count
\* every green score is 0; otherwise, cap being the 90th percentile of the
\* nonzero counts floored at 1, the green score is min(count / cap, 1): 0 for a
\* count of 0, exactly 1.0 for a count equal to or above the cap.
C6_PercentileCap ==
    Normalized =>
        IF \A k \in 1..n_edges : tree_counts[k] = 0
        THEN \A k \in 1..n_edges : RatEq(green_scores[k], Rat(0, 1))
        ELSE /\ Cap100(tree_counts) >= 100
             /\ \A k \in 1..n_edges :
                   /\ 100 * tree_counts[k] <= Cap100(tree_counts) =>
                         RatEq(green_scores[k], Rat(100 * tree_counts[k], Cap100(tree_counts)))
                   /\ 100 * tree_counts[k] >= Cap100(tree_counts) =>
                         RatEq(green_scores[k], Rat(1, 1))
                   /\ tree_counts[k] = 0 => RatEq(green_scores[k], Rat(0, 1))
                   /\ Returned =>
                         /\ tree_counts[k] = 0 => scored[k].green_score = 0
                         /\ 100 * tree_counts[k] >= Cap100(tree_counts) =>
                               scored[k].green_score = ROUND_SCALE
             \* the 90th percentile on concrete count arrays
             /\ tree_counts = <<3, 0>> => RatEq(green_scores[1], Rat(1, 1))
             /\ tree_counts = <<1, 2>> => RatEq(green_scores[1], Rat(10, 19))
             /\ tree_counts = <<2, 2>> => RatEq(green_scores[1], Rat(1, 1))
             /\ tree_counts = <<1, 3>> => RatEq(green_scores[1], Rat(10, 28))

\* counts 1 and 2: the cap is 1.9, the count above it scores exactly 1.0 and
\* the count below it 1/1.9
C6_Witness ==
    /\ Returned
    /\ \E j, k \in Rows :
          /\ tree_counts[j] = 1 /\ tree_counts[k] = 2
          /\ scored[k].green_score = ROUND_SCALE
          /\ scored[j].green_score = 526

----------------------------------------------------------------------------
\* C7: an empty point cloud gets no index, and its category scores the default
\* for every returned segment: green 0, cultural 0, clean 1.0.
C7_EmptyCloudDefaults ==
    /\ pc # "build" =>
          /\ Len(tree_points) = 0 => tree_kdtree = None
          /\ Len(cleaning_points) = 0 => cleaning_kdtree = None
          /\ Len(poi_points) = 0 => poi_kdtree = None
    /\ Returned =>
          /\ Len(tree_points) = 0 => \A k \in Rows : scored[k].green_score = 0
          /\ Len(poi_points) = 0 => \A k \in Rows : scored[k].cultural_score = 0
          /\ Len(cleaning_points) = 0 => \A k \in Rows : scored[k].clean_score = ROUND_SCALE

\* no trees and no POIs, but cleaning spots that lower a segment's clean score
C7_Witness ==
    /\ Returned
    /\ Len(tree_points) = 0 /\ Len(poi_points) = 0 /\ Len(cleaning_points) > 0
    /\ tree_kdtree = None /\ poi_kdtree = None
    /\ \E k \in Rows : ~Skipped(k) /\ scored[k].clean_score < ROUND_SCALE
                        /\ scored[k].green_score = 0 /\ scored[k].cultural_score = 0

----------------------------------------------------------------------------
\* C8: a segment with empty or missing geometry is never matched (no query, raw
\* counts 0) but is returned with the default scores 0.5, 0, 1.0, 0; and every
\* returned segment carries all four scores.
C8_SkippedKeepDefaults ==
    /\ \A k \in 1..n_edges : Skipped(k) =>
          /\ k \notin queried
          /\ pc \in {"loop", "normalize", "assign", "done"} =>
                tree_counts[k] = 0 /\ cleaning_counts[k] = 0 /\ poi_counts[k] = 0
    /\ Returned =>
          /\ Len(scored) = n_edges
          /\ \A k \in Rows :
                /\ ScoreFields \subseteq DOMAIN scored[k]
                /\ scored[k].geometry = edges[k]
                /\ Skipped(k) =>
                      /\ scored[k].noise_score = 500
                      /\ scored[k].green_score = 0
                      /\ scored[k].clean_score = ROUND_SCALE
                      /\ scored[k].cultural_score = 0

\* a returned frame holding a skipped segment and a segment scored off the
\* defaults in every category it can be
C8_Witness ==
    /\ Returned
    /\ \E j, k \in Rows :
          /\ Skipped(j)
          /\ scored[j].noise_score = 500
          /\ ~Skipped(k) /\ scored[k].noise_score # 500 /\ scored[k].green_score > 0
          /\ scored[k].clean_score < ROUND_SCALE

----------------------------------------------------------------------------
Built(kdtree) == kdtree # NotBuilt

\* C9: every index is built before the first segment is matched, and the
\* normalisation starts only once every segment's matching work is done.
C9_PhaseOrder ==
    /\ (pc \in {"loop", "normalize", "assign", "done"} \/ processed # {} \/ queried # {}) =>
          /\ Built(tree_kdtree) /\ Built(cleaning_kdtree)
          /\ Built(poi_kdtree) /\ Built(noise_kdtree)
    /\ pc \in {"normalize", "assign", "done"} => processed = AllUnits
    /\ pc \in {"build", "alloc", "loop"} =>
          /\ \A k \in 1..Len(green_scores) : green_scores[k] = Rat(0, 1)
          /\ \A k \in 1..Len(cultural_scores) : cultural_scores[k] = Rat(0, 1)
          /\ \A k \in 1..Len(clean_scores) : clean_scores[k] = Rat(1, 1)

\* normalisation about to start over two fully matched segments
C9_Witness ==
    /\ pc = "normalize"
    /\ n_edges = 2 /\ queried = {1, 2} /\ processed = AllUnits
    /\ tree_counts[2] > 0

----------------------------------------------------------------------------
(* What the sequential loop of lines 275-303 leaves in the arrays after its  *)
(* first m iterations                                                       *)
RECURSIVE SeqNoiseScores(_)
SeqNoiseScores(m) ==
    IF m = 0 THEN [k \in 1..n_edges |-> NoiseDefault]
    ELSE IF Skipped(m) THEN SeqNoiseScores(m - 1)
    ELSE MatchNoise(m, SeqNoiseScores(m - 1))

RECURSIVE SeqCounts(_, _)
SeqCounts(m, kdtree) ==
    IF m = 0 THEN [k \in 1..n_edges |-> 0]
    ELSE IF Skipped(m) THEN SeqCounts(m - 1, kdtree)
    ELSE MatchCounts(m, SeqCounts(m - 1, kdtree), kdtree)

SeqScored ==
    LET green == CapNormalize(SeqCounts(n_edges, tree_kdtree),
                              [k \in 1..n_edges |-> Rat(0, 1)])
        clean == CleanNormalize(SeqCounts(n_edges, cleaning_kdtree))
        cultural == CapNormalize(SeqCounts(n_edges, poi_kdtree),
                                 [k \in 1..n_edges |-> Rat(0, 1)])
    IN  [k \in 1..n_edges |->
            [geometry |-> edges[k],
             noise_score |-> Round3(SeqNoiseScores(n_edges)[k]),
             green_score |-> Round3(green[k]),
             clean_score |-> Round3(clean[k]),
             cultural_score |-> Round3(cultural[k])]]

\* C10: whatever the order in which the workers take the units of matching
\* work, each finished unit has left in its own slots what the sequential loop
\* leaves there, every unfinished unit's slots hold their initial values, and
\* the raw counts, noise scores and four final scores equal the sequential ones.
C10_OrderIndependent ==
    /\ pc = "loop" =>
          \A k \in 1..n_edges :
              /\ noise_scores[k] = IF <<k, "noise">> \in processed
                                   THEN SeqNoiseScores(n_edges)[k] ELSE NoiseDefault
              /\ tree_counts[k] = IF <<k, "counts">> \in processed
                                  THEN SeqCounts(n_edges, tree_kdtree)[k] ELSE 0
              /\ cleaning_counts[k] = IF <<k, "counts">> \in processed
                                      THEN SeqCounts(n_edges, cleaning_kdtree)[k] ELSE 0
              /\ poi_counts[k] = IF <<k, "counts">> \in processed
                                 THEN SeqCounts(n_edges, poi_kdtree)[k] ELSE 0
    /\ pc \in {"normalize", "assign", "done"} =>
          /\ noise_scores = SeqNoiseScores(n_edges)
          /\ tree_counts = SeqCounts(n_edges, tree_kdtree)
          /\ cleaning_counts = SeqCounts(n_edges, cleaning_kdtree)
          /\ poi_counts = SeqCounts(n_edges, poi_kdtree)
    /\ Returned => scored = SeqScored

\* the second segment counted before the first is touched, both having trees
C10_Witness ==
    /\ pc = "loop" /\ n_edges = 2
    /\ processed = {<<2, "counts">>}
    /\ tree_counts[2] > 0
    /\ SeqCounts(n_edges, tree_kdtree)[1] > 0
    /\ SeqNoiseScores(n_edges)[1] # NoiseDefault

====
